---- MODULE Spec2Model ----
(***************************************************************************)
(* Client-side state layer of the ShelfLife frontend: the token store      *)
(* (utils/tokenHandler.js), the HTTP client with its interceptors          *)
(* (utils/fetcher.js), the session coordinator (context/AuthContext.js,    *)
(* first AuthProvider), the UserProvider and BookProvider                  *)
(* (context/BookContext.js) and the ShelfProvider (ShelfContext).          *)
(*                                                                         *)
(* `import { tokenHandler } from './tokenHandler'` in fetcher.js is read   *)
(* as the namespace of tokenHandler.js: tokenHandler.getToken is getToken  *)
(* and tokenHandler.removeToken is removeToken.                            *)
(***************************************************************************)
EXTENDS Integers, Sequences, FiniteSets, Bags, TLC

VARIABLES
    token,        \* localStorage['shelflife-token']
    refreshTok,   \* localStorage['shelflife-refresh-token']
    now,          \* Date.now(), in the unit of the exp claim
    navPending,   \* window.location.href = '/login' assigned, page not yet replaced
    initPc,       \* position of the initializeAuth effect
    expiredResult,\* outcome of the isTokenExpired call of initializeAuth
    refreshResult,\* what the last refreshAuthToken call resolved to
    user,         \* AuthProvider state
    profile,
    settings,
    isLoading,
    error,
    userError,    \* UserProvider error state
    calls,        \* requests in flight (a bag)
    refreshTried, \* tokens a refresh request was issued for since the page loaded
    lastOp,       \* the handler step that produced this state
    before,       \* what that step found: a stored token, an authenticated user
    books,        \* BookProvider state
    book,
    bookIsLoading,
    bookError,
    bookCache,
    searchResults,
    shelves,      \* ShelfProvider state
    shelfIsLoading,
    shelfError,
    shelfCache

tokenVars   == <<token, refreshTok>>
authVars    == <<user, profile, settings, isLoading, error>>
sessionVars == <<token, refreshTok, now, navPending, initPc, expiredResult, refreshResult,
                 user, profile, settings, isLoading, error, userError>>
bookVars    == <<books, book, bookIsLoading, bookError, bookCache, searchResults>>
shelfVars   == <<shelves, shelfIsLoading, shelfError, shelfCache>>
vars        == <<sessionVars, calls, refreshTried, lastOp, before, bookVars, shelfVars>>

----------------------------------------------------------------------------
(* Bounds *)

MaxNow == 2        \* the clock runs 1..MaxNow
MaxInFlight == 2   \* requests awaiting a response at one time

----------------------------------------------------------------------------
(* Values *)

Null   == "null"       \* JavaScript null: useState(null), localStorage miss
NoExpClaim == 0 - 1    \* payload without an exp claim (exp is undefined)

\* localStorage.getItem of a key that is not stored
Absent == [kind |-> "absent", sub |-> "none", exp |-> NoExpClaim]

Users == {"u1", "u2"}
BookIds  == {"b1", "b2"}
ShelfIds == {"s1", "s2"}

\* new Map(), and new Map(m).set(k, v)
EmptyMap == [k \in {} |-> Null]
MapSetDropped(m, k, v) == m   \* mutant of MapSet: the entry is not written
MapHasNever(m, k) == FALSE   \* mutant of MapHas: the cache is never consulted
MapSet(m, k, v) == [x \in DOMAIN m \cup {k} |-> IF x = k THEN v ELSE m[x]]
MapHas(m, k) == k \in DOMAIN m

\* refreshAuthToken has not resolved yet; it resolved to null.
NoResult     == [kind |-> "none", sub |-> "none", exp |-> NoExpClaim]
ReturnedNull == [kind |-> "null", sub |-> "none", exp |-> NoExpClaim]

JWT(s, e) == [kind |-> "jwt", sub |-> s, exp |-> e]
Garbage   == [kind |-> "garbage", sub |-> "none", exp |-> NoExpClaim]

\* Tokens the backend hands out on login, signup and refresh.
ServerTokens == {JWT(s, e) : s \in Users, e \in 1..MaxNow} \cup {Garbage}

\* What localStorage may hold when the page loads.
BootTokens == {Absent, Garbage, JWT("u1", NoExpClaim)}
              \cup {JWT("u1", e) : e \in 0..MaxNow}

Outcomes == {"ok", "fail", "unauth", "noresp"}

ErrResponse   == "An error occurred."
ErrNoResponse == "No response received from server."
ErrDecode     == "Invalid token specified"

\* A request's argument: the book and target shelf of updateBookShelf (with the
\* shelf the book is on when the call is made), the user id of a shelf request.
Arg(i, sh, w) == [id |-> i, shelf |-> sh, was |-> w]
NoArg == Arg(Null, Null, Null)

\* No request.  got and over are filled in when a collection response is taken:
\* the collection received and the list it replaced.
NoCall == [op |-> "none", arg |-> NoArg, expired |-> FALSE, refreshed |-> FALSE,
           got |-> <<>>, over |-> <<>>]

----------------------------------------------------------------------------
(* utils/tokenHandler.js *)

\* jwtDecode(token) returns the payload or throws InvalidTokenError.
Decodes(t) == t # Absent /\ t.kind = "jwt"

\* The decoded expiry lies in the past at time n.
PastExpiry(t, n) == Decodes(t) /\ t.exp # NoExpClaim /\ t.exp < n

\* Mutant of isTokenExpired: the comparison with Date.now() turned around.
isTokenExpiredFlipped(t, n) ==
    IF t = Absent THEN "true"
    ELSE IF ~Decodes(t) THEN "throw"
    ELSE IF t.exp = NoExpClaim THEN "false"
    ELSE IF t.exp >= n THEN "true" ELSE "false"

\* isTokenExpired(token) at time n: "true", "false", or "throw" when jwtDecode
\* throws.  exp undefined gives NaN < Date.now(), which is false.
isTokenExpired(t, n) ==
    IF t = Absent THEN "true"
    ELSE IF ~Decodes(t) THEN "throw"
    ELSE IF t.exp = NoExpClaim THEN "false"
    ELSE IF t.exp < n THEN "true" ELSE "false"

\* Mutant of removeToken: the item stays in localStorage.
removeTokenKept == token

\* The stored token after removeToken().
removeToken == Absent

\* Mutant of removeRefreshToken: the item stays in localStorage.
removeRefreshTokenKept == refreshTok

\* The stored refresh token after removeRefreshToken().
removeRefreshToken == Null

\* The token store's functions called on their own.  localStorage.setItem and
\* removeItem have no failing outcome; removeItem of a missing key does nothing.
StoreStep(op) ==
    /\ lastOp' = op
    /\ before' = [token |-> token # Absent, user |-> user # Null, call |-> NoCall]
    /\ UNCHANGED <<now, navPending, initPc, user, profile, settings,
                   isLoading, error, userError, calls, refreshTried, books, book,
                   bookIsLoading, bookError, bookCache, searchResults, shelves,
                   shelfIsLoading, shelfError, shelfCache>>

SetToken ==
    \E t \in ServerTokens :
        /\ token' = t
        /\ UNCHANGED <<refreshTok, expiredResult, refreshResult>>
        /\ StoreStep("setToken")

\* isTokenExpired(getToken())
IsTokenExpired ==
    /\ expiredResult' = isTokenExpired(token, now)
    /\ UNCHANGED <<token, refreshTok, refreshResult>>
    /\ StoreStep("isTokenExpired")

RemoveToken ==
    /\ token' = removeToken
    /\ UNCHANGED <<refreshTok, expiredResult, refreshResult>>
    /\ StoreStep(IF lastOp \in {"removeToken", "removeTokenAgain"}
                 THEN "removeTokenAgain" ELSE "removeToken")

SetRefreshToken ==
    /\ refreshTok' = "r"
    /\ UNCHANGED <<token, expiredResult, refreshResult>>
    /\ StoreStep("setRefreshToken")

RemoveRefreshToken ==
    /\ refreshTok' = removeRefreshToken
    /\ UNCHANGED <<token, expiredResult, refreshResult>>
    /\ StoreStep("removeRefreshToken")

----------------------------------------------------------------------------
(* utils/fetcher.js *)

\* Requests of operation op awaiting their response.
InFlight(op) == {c \in BagToSet(calls) : c.op = op}

\* Request interceptor: the stored token, if any, becomes the bearer.  The record
\* keeps whether that bearer's expiry was in the past when it was attached, and
\* whether a refresh had been attempted for it.
Request(op, arg) ==
    [op |-> op, arg |-> arg,
     expired |-> PastExpiry(token, now),
     refreshed |-> token \in refreshTried,
     got |-> <<>>, over |-> <<>>]

Send(op, arg) ==
    /\ BagCardinality(calls) < MaxInFlight
    /\ calls' = calls (+) SetToBag({Request(op, arg)})

\* The response to request c has been taken.
Done(c) == calls' = calls (-) SetToBag({c})

\* Mutant of TokenAfterResponse: the 401 branch leaves the token in place.
TokenAfterResponseKept(outcome) == token

\* Response interceptor: the stored token after a response with this outcome.
TokenAfterResponse(outcome) ==
    IF outcome = "unauth" THEN removeToken ELSE token

\* Response interceptor: a 401 assigns window.location.href.
NavAfterResponse(outcome) == navPending \/ outcome = "unauth"

\* Mutant of FetcherError: the failure carries no message.
FetcherErrorNone(outcome) == Null

\* fetcher's catch: the message of the Error it throws.
FetcherError(outcome) ==
    IF outcome = "noresp" THEN ErrNoResponse ELSE ErrResponse

----------------------------------------------------------------------------
(* context/AuthContext.js *)

\* What a step finds when it starts, and the request it sends or answers.
Found(c) == [token |-> token # Absent, user |-> user # Null, call |-> c]

\* Mutant of logout: removeToken() is not called.
logoutKeepsToken ==
    /\ token' = token
    /\ user' = Null
    /\ profile' = Null
    /\ settings' = Null

\* logout(): the stored token and the session state it leaves.
logout ==
    /\ token' = removeToken
    /\ user' = Null
    /\ profile' = Null
    /\ settings' = Null

Mounted == initPc # "start"

\* initializeAuth, up to its first await (or to its end).
InitializeAuth ==
    /\ before' = Found(IF token # Absent /\ isTokenExpired(token, now) = "true" THEN Request("refresh", NoArg) ELSE NoCall)
    /\ initPc = "start"
    /\ lastOp' = "initializeAuth"
    /\ UNCHANGED <<tokenVars, refreshResult, now, navPending, profile, settings,
                   error, userError, bookVars, shelfVars>>
    /\ IF token = Absent
       THEN /\ isLoading' = FALSE
            /\ initPc' = "done"
            /\ UNCHANGED <<user, expiredResult, calls, refreshTried>>
       ELSE /\ expiredResult' = isTokenExpired(token, now)
            /\ CASE expiredResult' = "throw" ->
                      \* the rejection leaves initializeAuth before setIsLoading
                      /\ initPc' = "aborted"
                      /\ UNCHANGED <<user, isLoading, calls, refreshTried>>
                 [] expiredResult' = "true" ->
                      /\ Send("refresh", NoArg)
                      /\ refreshTried' = refreshTried \cup {token}
                      /\ initPc' = "awaitRefresh"
                      /\ UNCHANGED <<user, isLoading>>
                 [] OTHER ->
                      /\ user' = token.sub
                      /\ isLoading' = FALSE
                      /\ initPc' = "done"
                      /\ UNCHANGED <<calls, refreshTried>>

\* refreshToken resumes with the response, then initializeAuth finishes.
RespondRefresh ==
    \E c \in InFlight("refresh"), outcome \in Outcomes, newToken \in ServerTokens :
        /\ before' = Found(c)
        /\ initPc = "awaitRefresh"
        /\ Done(c)
        /\ navPending' = NavAfterResponse(outcome)
        /\ IF outcome = "ok" /\ Decodes(newToken)
           THEN /\ token' = newToken
                /\ user' = newToken.sub
                /\ lastOp' = "refreshOk"
                /\ UNCHANGED <<profile, settings>>
           ELSE /\ logout
                /\ lastOp' = IF outcome = "unauth" THEN "refresh401" ELSE "refreshFail"
        /\ isLoading' = FALSE
        /\ initPc' = "done"
        /\ UNCHANGED <<refreshTok, now, expiredResult, refreshResult, error, userError,
                       refreshTried, bookVars, shelfVars>>

\* login(email, password) and signup(userData), up to the await.
StartAuth(op) ==
    /\ before' = Found(Request(op, NoArg))
    /\ Mounted
    /\ Send(op, NoArg)
    /\ isLoading' = TRUE
    /\ error' = Null
    /\ lastOp' = "call"
    /\ UNCHANGED <<tokenVars, now, navPending, initPc, expiredResult, refreshResult, user, profile,
                   settings, userError, refreshTried, bookVars, shelfVars>>

\* login / signup resume with the response: try, catch, finally.
FinishAuth(op) ==
    \E c \in InFlight(op), outcome \in Outcomes, newToken \in ServerTokens :
        /\ before' = Found(c)
        /\ Done(c)
        /\ navPending' = NavAfterResponse(outcome)
        /\ IF outcome = "ok"
           THEN /\ token' = newToken
                /\ IF Decodes(newToken)
                   THEN user' = newToken.sub /\ UNCHANGED error
                   ELSE error' = ErrDecode /\ UNCHANGED user
                /\ lastOp' = op \o "Ok"
           ELSE /\ token' = TokenAfterResponse(outcome)
                /\ error' = FetcherError(outcome)
                /\ lastOp' = op \o (IF outcome = "unauth" THEN "401" ELSE "Fail")
                /\ UNCHANGED user
        /\ isLoading' = FALSE
        /\ UNCHANGED <<refreshTok, now, initPc, expiredResult, refreshResult, profile, settings,
                       userError, refreshTried, bookVars, shelfVars>>

Login         == StartAuth("login")
RespondLogin  == FinishAuth("login")
Signup        == StartAuth("signup")
RespondSignup == FinishAuth("signup")

\* logout() called by a UI consumer.
Logout ==
    /\ before' = Found(NoCall)
    /\ Mounted
    /\ logout
    /\ lastOp' = "logout"
    /\ UNCHANGED <<refreshTok, now, navPending, initPc, expiredResult, refreshResult, isLoading,
                   error, userError, calls, refreshTried, bookVars, shelfVars>>

\* fetchUserProfile(), up to the await.
FetchUserProfile ==
    /\ before' = Found(Request("fetchUserProfile", NoArg))
    /\ Mounted
    /\ Send("fetchUserProfile", NoArg)
    /\ lastOp' = "call"
    /\ UNCHANGED <<sessionVars, refreshTried, bookVars, shelfVars>>

RespondFetchUserProfile ==
    \E c \in InFlight("fetchUserProfile"), outcome \in Outcomes :
        /\ before' = Found(c)
        /\ Done(c)
        /\ navPending' = NavAfterResponse(outcome)
        /\ token' = TokenAfterResponse(outcome)
        /\ IF outcome = "ok"
           THEN /\ profile' = "profile"
                /\ lastOp' = "fetchUserProfileOk"
                /\ UNCHANGED error
           ELSE /\ error' = FetcherError(outcome)
                /\ lastOp' = IF outcome = "unauth" THEN "fetchUserProfile401"
                                                   ELSE "fetchUserProfileFail"
                /\ UNCHANGED profile
        /\ UNCHANGED <<refreshTok, now, initPc, expiredResult, refreshResult, user, settings,
                       isLoading, userError, refreshTried, bookVars, shelfVars>>

\* AuthProvider.updatePassword(currentPassword, newPassword), up to the await.
UpdatePassword ==
    /\ before' = Found(Request("updatePassword", NoArg))
    /\ Mounted
    /\ Send("updatePassword", NoArg)
    /\ lastOp' = "call"
    /\ UNCHANGED <<sessionVars, refreshTried, bookVars, shelfVars>>

RespondUpdatePassword ==
    \E c \in InFlight("updatePassword"), outcome \in Outcomes :
        /\ before' = Found(c)
        /\ Done(c)
        /\ navPending' = NavAfterResponse(outcome)
        /\ IF outcome = "ok"
           THEN /\ logout
                /\ lastOp' = "updatePasswordOk"
                /\ UNCHANGED error
           ELSE /\ token' = TokenAfterResponse(outcome)
                /\ error' = FetcherError(outcome)
                /\ lastOp' = IF outcome = "unauth" THEN "updatePassword401"
                                                   ELSE "updatePasswordFail"
                /\ UNCHANGED <<user, profile, settings>>
        /\ UNCHANGED <<refreshTok, now, initPc, expiredResult, refreshResult, isLoading, userError,
                       refreshTried, bookVars, shelfVars>>

----------------------------------------------------------------------------
(* context/BookContext.js: UserProvider *)

\* UserProvider.updatePassword(currentPassword, newPassword), up to the await.
UserUpdatePassword ==
    /\ before' = Found(Request("userUpdatePassword", NoArg))
    /\ Mounted
    /\ Send("userUpdatePassword", NoArg)
    /\ lastOp' = "call"
    /\ UNCHANGED <<sessionVars, refreshTried, bookVars, shelfVars>>

\* userAPI.updatePassword rethrows every failure as "Failed to update password."
RespondUserUpdatePassword ==
    \E c \in InFlight("userUpdatePassword"), outcome \in Outcomes :
        /\ before' = Found(c)
        /\ Done(c)
        /\ navPending' = NavAfterResponse(outcome)
        /\ IF outcome = "ok"
           THEN /\ logout
                /\ lastOp' = "userUpdatePasswordOk"
                /\ UNCHANGED userError
           ELSE /\ token' = TokenAfterResponse(outcome)
                /\ userError' = "Failed to update password."
                /\ lastOp' = IF outcome = "unauth" THEN "userUpdatePassword401"
                                                   ELSE "userUpdatePasswordFail"
                /\ UNCHANGED <<user, profile, settings>>
        /\ UNCHANGED <<refreshTok, now, initPc, expiredResult, refreshResult, isLoading, error,
                       refreshTried, bookVars, shelfVars>>

----------------------------------------------------------------------------
(* context/BookContext.js: BookProvider *)

Book(i, sh) == [id |-> i, shelf |-> sh]

\* Collections GET /books may return.
ServerBookLists ==
    {<<>>, <<Book("b1", "s1")>>, <<Book("b1", "s1"), Book("b2", "s2")>>}

\* The shelf of the entry for book i in list l, or null when l has none.
ShelfOf(l, i) ==
    IF \E k \in DOMAIN l : l[k].id = i
    THEN l[CHOOSE k \in DOMAIN l : l[k].id = i].shelf
    ELSE Null

\* fetchBooks(): served from the cache, or up to the await.
FetchBooks ==
    /\ Mounted
    /\ IF MapHas(bookCache, "allBooks")
       THEN /\ books' = bookCache["allBooks"]
            /\ bookIsLoading' = FALSE
            /\ lastOp' = "fetchBooksCached"
            /\ before' = Found(NoCall)
            /\ UNCHANGED calls
       ELSE /\ Send("fetchBooks", NoArg)
            /\ lastOp' = "call"
            /\ before' = Found(Request("fetchBooks", NoArg))
            /\ UNCHANGED <<books, bookIsLoading>>
    /\ UNCHANGED <<sessionVars, refreshTried, book, bookError, bookCache,
                   searchResults, shelfVars>>

\* Mutant of FetchedBooks: a response that finds the view cached is dropped.
FetchedBooksFirstWins(fetched) ==
    IF "allBooks" \in DOMAIN bookCache THEN books ELSE fetched

\* setBooks(fetchedBooks): the list a successful response leaves.
FetchedBooks(fetched) == fetched

RespondFetchBooks ==
    \E c \in InFlight("fetchBooks"), outcome \in Outcomes, fetched \in ServerBookLists :
        /\ before' = Found(IF outcome = "ok"
                           THEN [c EXCEPT !.got = fetched, !.over = books]
                           ELSE c)
        /\ Done(c)
        /\ navPending' = NavAfterResponse(outcome)
        /\ token' = TokenAfterResponse(outcome)
        /\ IF outcome = "ok"
           THEN /\ books' = FetchedBooks(fetched)
                /\ bookCache' = MapSet(bookCache, "allBooks", FetchedBooks(fetched))
                /\ lastOp' = "fetchBooksOk"
                /\ UNCHANGED bookError
           ELSE /\ bookError' = "Failed to fetch books."
                /\ lastOp' = IF outcome = "unauth" THEN "fetchBooks401"
                                                   ELSE "fetchBooksFail"
                /\ UNCHANGED <<books, bookCache>>
        /\ bookIsLoading' = FALSE
        /\ UNCHANGED <<refreshTok, now, initPc, expiredResult, refreshResult, authVars, userError,
                       refreshTried, book, searchResults, shelfVars>>

\* updateBookShelf(bookId, newShelfId), up to the await: the request is the
\* first thing it does.
UpdateBookShelf ==
    \E i \in BookIds, sh \in ShelfIds :
        LET a == Arg(i, sh, ShelfOf(books, i)) IN
        /\ Mounted
        /\ Send("updateBookShelf", a)
        /\ lastOp' = "updateBookShelf"
        /\ before' = Found(Request("updateBookShelf", a))
        /\ UNCHANGED <<sessionVars, refreshTried, bookVars, shelfVars>>

\* The list with the shelf of book i set to sh.
WithShelf(l, i, sh) ==
    [k \in DOMAIN l |-> IF l[k].id = i THEN [l[k] EXCEPT !.shelf = sh] ELSE l[k]]

RespondUpdateBookShelf ==
    \E c \in InFlight("updateBookShelf"), outcome \in Outcomes :
        /\ before' = Found(c)
        /\ Done(c)
        /\ navPending' = NavAfterResponse(outcome)
        /\ token' = TokenAfterResponse(outcome)
        /\ IF outcome = "ok"
           THEN /\ books' = WithShelf(books, c.arg.id, c.arg.shelf)
                /\ bookCache' = MapSet(bookCache, "allBooks", books')
                /\ lastOp' = "updateBookShelfOk"
                /\ UNCHANGED bookError
           ELSE /\ bookError' = "Failed to update the book shelf."
                /\ lastOp' = IF outcome = "unauth" THEN "updateBookShelf401"
                                                   ELSE "updateBookShelfFail"
                /\ UNCHANGED <<books, bookCache>>
        /\ UNCHANGED <<refreshTok, now, initPc, expiredResult, refreshResult, authVars, userError,
                       refreshTried, book, bookIsLoading, searchResults, shelfVars>>

\* The mark a completed operation leaves in lastOp, by the outcome of its call.
Mark(op, outcome) ==
    op \o (IF outcome = "ok" THEN "Ok"
           ELSE IF outcome = "unauth" THEN "401" ELSE "Fail")

\* Mutant of Resolved: the try block continues whatever the outcome.
ResolvedAlways(outcome) == TRUE

\* The awaited API call resolved: the try block continues; otherwise the catch
\* runs.
Resolved(outcome) == outcome = "ok"

\* Mutant of AddBook: the call starts with setError(null), as the shelf store's
\* operations do.
AddBookClearingError ==
    \E sh \in ShelfIds :
        /\ Mounted
        /\ Send("addBook", Arg(Null, sh, Null))
        /\ bookIsLoading' = TRUE
        /\ bookError' = Null
        /\ lastOp' = "call"
        /\ before' = Found(Request("addBook", Arg(Null, sh, Null)))
        /\ UNCHANGED <<sessionVars, refreshTried, books, book, bookCache,
                       searchResults, shelfVars>>

\* addBook(bookData), up to the await.
AddBook ==
    \E sh \in ShelfIds :
        /\ Mounted
        /\ Send("addBook", Arg(Null, sh, Null))
        /\ bookIsLoading' = TRUE
        /\ lastOp' = "call"
        /\ before' = Found(Request("addBook", Arg(Null, sh, Null)))
        /\ UNCHANGED <<sessionVars, refreshTried, books, book, bookError, bookCache,
                       searchResults, shelfVars>>

\* The backend names the new book with an id no listed book has.
RespondAddBook ==
    \E c \in InFlight("addBook"), outcome \in Outcomes, i \in BookIds :
        /\ Resolved(outcome) => \A k \in DOMAIN books : books[k].id # i
        /\ before' = Found(c)
        /\ Done(c)
        /\ navPending' = NavAfterResponse(outcome)
        /\ token' = TokenAfterResponse(outcome)
        /\ IF Resolved(outcome)
           THEN /\ books' = Append(books, Book(i, c.arg.shelf))
                /\ bookCache' = MapSet(bookCache, "allBooks", books')
                /\ UNCHANGED bookError
           ELSE /\ bookError' = "Failed to create the book."
                /\ UNCHANGED <<books, bookCache>>
        /\ lastOp' = Mark("addBook", outcome)
        /\ bookIsLoading' = FALSE
        /\ UNCHANGED <<refreshTok, now, initPc, expiredResult, refreshResult, authVars, userError,
                       refreshTried, book, searchResults, shelfVars>>

\* Search queries.
Queries == {"dune", "emma"}

\* Mutant of SetSearchResults: the results replace the primary list as well.
SetSearchResultsIntoBooks(results) ==
    /\ searchResults' = results
    /\ books' = results
    /\ UNCHANGED bookCache

\* setSearchResults(results)
SetSearchResults(results) ==
    /\ searchResults' = results
    /\ UNCHANGED <<books, bookCache>>

\* searchBooks(query), up to the await.
SearchBooks ==
    \E q \in Queries :
        /\ Mounted
        /\ Send("searchBooks", Arg(q, Null, Null))
        /\ bookIsLoading' = TRUE
        /\ lastOp' = "searchBooks"
        /\ before' = Found(Request("searchBooks", Arg(q, Null, Null)))
        /\ UNCHANGED <<sessionVars, refreshTried, books, book, bookError, bookCache,
                       searchResults, shelfVars>>

RespondSearchBooks ==
    \E c \in InFlight("searchBooks"), outcome \in Outcomes, results \in ServerBookLists :
        /\ before' = Found(c)
        /\ Done(c)
        /\ navPending' = NavAfterResponse(outcome)
        /\ token' = TokenAfterResponse(outcome)
        /\ IF Resolved(outcome)
           THEN /\ SetSearchResults(results)
                /\ lastOp' = "searchBooksOk"
                /\ UNCHANGED bookError
           ELSE /\ bookError' = "Failed to search for books with query \""
                                    \o c.arg.id \o "\"."
                /\ lastOp' = IF outcome = "unauth" THEN "searchBooks401"
                                                   ELSE "searchBooksFail"
                /\ UNCHANGED <<books, bookCache, searchResults>>
        /\ bookIsLoading' = FALSE
        /\ UNCHANGED <<refreshTok, now, initPc, expiredResult, refreshResult, authVars, userError,
                       refreshTried, book, shelfVars>>

\* getBookById(bookId): served from the cache, or up to the await.
GetBookById ==
    \E i \in BookIds :
        /\ Mounted
        /\ IF MapHas(bookCache, i)
           THEN /\ book' = bookCache[i]
                /\ bookIsLoading' = FALSE
                /\ lastOp' = "getBookByIdCached"
                /\ before' = Found([NoCall EXCEPT !.arg = Arg(i, Null, Null)])
                /\ UNCHANGED calls
           ELSE /\ bookIsLoading' = TRUE
                /\ Send("getBookById", Arg(i, Null, Null))
                /\ lastOp' = "call"
                /\ before' = Found(Request("getBookById", Arg(i, Null, Null)))
                /\ UNCHANGED book
        /\ UNCHANGED <<sessionVars, refreshTried, books, bookError, bookCache,
                       searchResults, shelfVars>>

\* The backend answers with its current copy of the book.
RespondGetBookById ==
    \E c \in InFlight("getBookById"), outcome \in Outcomes, sh \in ShelfIds :
        /\ before' = Found(c)
        /\ Done(c)
        /\ navPending' = NavAfterResponse(outcome)
        /\ token' = TokenAfterResponse(outcome)
        /\ IF Resolved(outcome)
           THEN /\ book' = Book(c.arg.id, sh)
                /\ bookCache' = MapSet(bookCache, c.arg.id, book')
                /\ lastOp' = "getBookByIdOk"
                /\ UNCHANGED bookError
           ELSE /\ bookError' = "Failed to fetch book with ID " \o c.arg.id \o "."
                /\ lastOp' = IF outcome = "unauth" THEN "getBookById401"
                                                   ELSE "getBookByIdFail"
                /\ UNCHANGED <<book, bookCache>>
        /\ bookIsLoading' = FALSE
        /\ UNCHANGED <<refreshTok, now, initPc, expiredResult, refreshResult, authVars, userError,
                       refreshTried, books, searchResults, shelfVars>>

\* The list with every entry for book b.id replaced by b.
WithBook(l, b) ==
    [k \in DOMAIN l |-> IF l[k].id = b.id THEN b ELSE l[k]]

\* updateBook(bookId, bookData), up to the await.
UpdateBook ==
    \E i \in BookIds, sh \in ShelfIds :
        /\ Mounted
        /\ bookIsLoading' = TRUE
        /\ Send("updateBook", Arg(i, sh, Null))
        /\ lastOp' = "call"
        /\ before' = Found(Request("updateBook", Arg(i, sh, Null)))
        /\ UNCHANGED <<sessionVars, refreshTried, books, book, bookError, bookCache,
                       searchResults, shelfVars>>

\* The backend answers with the updated book.
RespondUpdateBook ==
    \E c \in InFlight("updateBook"), outcome \in Outcomes :
        /\ before' = Found(c)
        /\ Done(c)
        /\ navPending' = NavAfterResponse(outcome)
        /\ token' = TokenAfterResponse(outcome)
        /\ IF Resolved(outcome)
           THEN /\ books' = WithBook(books, Book(c.arg.id, c.arg.shelf))
                /\ bookCache' = MapSet(bookCache, "allBooks", books')
                /\ lastOp' = "updateBookOk"
                /\ UNCHANGED bookError
           ELSE /\ bookError' = "Failed to update book with ID " \o c.arg.id \o "."
                /\ lastOp' = IF outcome = "unauth" THEN "updateBook401"
                                                   ELSE "updateBookFail"
                /\ UNCHANGED <<books, bookCache>>
        /\ bookIsLoading' = FALSE
        /\ UNCHANGED <<refreshTok, now, initPc, expiredResult, refreshResult, authVars, userError,
                       refreshTried, book, searchResults, shelfVars>>

\* prevBooks.filter(book => book.id !== bookId)
WithoutBook(l, i) == SelectSeq(l, LAMBDA b : b.id # i)

\* deleteBook(bookId), up to the await.
DeleteBook ==
    \E i \in BookIds :
        /\ Mounted
        /\ bookIsLoading' = TRUE
        /\ Send("deleteBook", Arg(i, Null, Null))
        /\ lastOp' = "call"
        /\ before' = Found(Request("deleteBook", Arg(i, Null, Null)))
        /\ UNCHANGED <<sessionVars, refreshTried, books, book, bookError, bookCache,
                       searchResults, shelfVars>>

RespondDeleteBook ==
    \E c \in InFlight("deleteBook"), outcome \in Outcomes :
        /\ before' = Found(c)
        /\ Done(c)
        /\ navPending' = NavAfterResponse(outcome)
        /\ token' = TokenAfterResponse(outcome)
        /\ IF Resolved(outcome)
           THEN /\ books' = WithoutBook(books, c.arg.id)
                /\ bookCache' = MapSet(bookCache, "allBooks", books')
                /\ UNCHANGED bookError
           ELSE /\ bookError' = "Failed to delete book with ID " \o c.arg.id \o "."
                /\ UNCHANGED <<books, bookCache>>
        /\ lastOp' = Mark("deleteBook", outcome)
        /\ bookIsLoading' = FALSE
        /\ UNCHANGED <<refreshTok, now, initPc, expiredResult, refreshResult, authVars, userError,
                       refreshTried, book, searchResults, shelfVars>>

----------------------------------------------------------------------------
(* ShelfContext: ShelfProvider *)

Shelf(i, u) == [id |-> i, owner |-> u]

\* The cache key `shelves-${user._id}`.
ShelfKey(u) == "shelves-" \o u

\* createShelf(shelfName), up to the await.
CreateShelf ==
    /\ Mounted
    /\ user # Null
    /\ shelfError' = Null
    /\ Send("createShelf", Arg(user, Null, Null))
    /\ lastOp' = "call"
    /\ before' = Found(Request("createShelf", Arg(user, Null, Null)))
    /\ UNCHANGED <<sessionVars, refreshTried, bookVars, shelves, shelfIsLoading,
                   shelfCache>>

\* The backend names the new shelf with an id no listed shelf has.
RespondCreateShelf ==
    \E c \in InFlight("createShelf"), outcome \in Outcomes, i \in ShelfIds :
        /\ Resolved(outcome) => \A k \in DOMAIN shelves : shelves[k].id # i
        /\ before' = Found(c)
        /\ Done(c)
        /\ navPending' = NavAfterResponse(outcome)
        /\ token' = TokenAfterResponse(outcome)
        /\ IF Resolved(outcome)
           THEN /\ shelves' = Append(shelves, Shelf(i, c.arg.id))
                /\ shelfCache' = MapSet(shelfCache, ShelfKey(c.arg.id), shelves')
                /\ UNCHANGED shelfError
           ELSE /\ shelfError' = "Failed to create shelf."
                /\ UNCHANGED <<shelves, shelfCache>>
        /\ lastOp' = Mark("createShelf", outcome)
        /\ UNCHANGED <<refreshTok, now, initPc, expiredResult, refreshResult, authVars, userError,
                       refreshTried, bookVars, shelfIsLoading>>

\* Collections the backend may return for user u's shelves.
ServerShelfLists(u) ==
    {<<>>, <<Shelf("s1", u)>>, <<Shelf("s1", u), Shelf("s2", u)>>}

\* shelfAPI.getShelvesByUserId(userId): a GET for that user's shelves, sent
\* through fetcher like the other shelfAPI calls.
getShelvesByUserId(u) == Send("fetchShelves", Arg(u, Null, Null))

\* fetchShelves(), with a user: served from the cache, or up to the await.
FetchShelves ==
    /\ Mounted
    /\ user # Null
    /\ IF MapHas(shelfCache, ShelfKey(user))
       THEN /\ shelves' = shelfCache[ShelfKey(user)]
            /\ shelfIsLoading' = FALSE
            /\ lastOp' = "fetchShelvesCached"
            /\ before' = Found(NoCall)
            /\ UNCHANGED <<calls, shelfError>>
       ELSE /\ shelfIsLoading' = TRUE
            /\ shelfError' = Null
            /\ getShelvesByUserId(user)
            /\ lastOp' = "call"
            /\ before' = Found(Request("fetchShelves", Arg(user, Null, Null)))
            /\ UNCHANGED shelves
    /\ UNCHANGED <<sessionVars, refreshTried, bookVars, shelfCache>>

RespondFetchShelves ==
    \E c \in InFlight("fetchShelves"), outcome \in Outcomes :
      \E fetched \in ServerShelfLists(c.arg.id) :
        /\ before' = Found(c)
        /\ Done(c)
        /\ navPending' = NavAfterResponse(outcome)
        /\ token' = TokenAfterResponse(outcome)
        /\ IF Resolved(outcome)
           THEN /\ shelves' = fetched
                /\ shelfCache' = MapSet(shelfCache, ShelfKey(c.arg.id), fetched)
                /\ lastOp' = "fetchShelvesOk"
                /\ UNCHANGED shelfError
           ELSE /\ shelfError' = "Failed to fetch shelves."
                /\ lastOp' = IF outcome = "unauth" THEN "fetchShelves401"
                                                   ELSE "fetchShelvesFail"
                /\ UNCHANGED <<shelves, shelfCache>>
        /\ shelfIsLoading' = FALSE
        /\ UNCHANGED <<refreshTok, now, initPc, expiredResult, refreshResult, authVars, userError,
                       refreshTried, bookVars>>

\* getShelfById(shelfId), with a user, up to the await.
GetShelfById ==
    \E i \in ShelfIds :
        /\ Mounted
        /\ user # Null
        /\ shelfError' = Null
        /\ Send("getShelfById", Arg(i, Null, Null))
        /\ lastOp' = "call"
        /\ before' = Found(Request("getShelfById", Arg(i, Null, Null)))
        /\ UNCHANGED <<sessionVars, refreshTried, bookVars, shelves, shelfIsLoading,
                       shelfCache>>

\* getShelfById resumes: the shelf is returned to the caller, or the catch
\* records the error and throws it again, so the caller's promise rejects.
RespondGetShelfById ==
    \E c \in InFlight("getShelfById"), outcome \in Outcomes :
        /\ before' = Found(c)
        /\ Done(c)
        /\ navPending' = NavAfterResponse(outcome)
        /\ token' = TokenAfterResponse(outcome)
        /\ IF Resolved(outcome)
           THEN /\ lastOp' = "getShelfByIdOk"
                /\ UNCHANGED shelfError
           ELSE /\ shelfError' = "Failed to fetch shelf with ID " \o c.arg.id \o "."
                /\ lastOp' = IF outcome = "unauth" THEN "getShelfById401Rejected"
                                                   ELSE "getShelfByIdFailRejected"
        /\ UNCHANGED <<refreshTok, now, initPc, expiredResult, refreshResult, authVars, userError,
                       refreshTried, bookVars, shelves, shelfIsLoading, shelfCache>>

\* prevShelves.filter(shelf => shelf._id !== shelfId)
WithoutShelf(l, i) == SelectSeq(l, LAMBDA sh : sh.id # i)

\* deleteShelf(shelfId), with a user, up to the await.
DeleteShelf ==
    \E i \in ShelfIds :
        /\ Mounted
        /\ user # Null
        /\ shelfError' = Null
        /\ Send("deleteShelf", Arg(user, i, Null))
        /\ lastOp' = "call"
        /\ before' = Found(Request("deleteShelf", Arg(user, i, Null)))
        /\ UNCHANGED <<sessionVars, refreshTried, bookVars, shelves, shelfIsLoading,
                       shelfCache>>

RespondDeleteShelf ==
    \E c \in InFlight("deleteShelf"), outcome \in Outcomes :
        /\ before' = Found(c)
        /\ Done(c)
        /\ navPending' = NavAfterResponse(outcome)
        /\ token' = TokenAfterResponse(outcome)
        /\ IF Resolved(outcome)
           THEN /\ shelves' = WithoutShelf(shelves, c.arg.shelf)
                /\ shelfCache' = MapSet(shelfCache, ShelfKey(c.arg.id), shelves')
                /\ UNCHANGED shelfError
           ELSE /\ shelfError' = "Failed to delete shelf with ID " \o c.arg.shelf \o "."
                /\ UNCHANGED <<shelves, shelfCache>>
        /\ lastOp' = Mark("deleteShelf", outcome)
        /\ UNCHANGED <<refreshTok, now, initPc, expiredResult, refreshResult, authVars, userError,
                       refreshTried, bookVars, shelfIsLoading>>

----------------------------------------------------------------------------
(* utils/tokenHandler.js: refreshAuthToken *)

\* What fetch('/auth/refresh') settles with: a 2xx response, another response, or
\* a rejection.  The request does not go through the axios instance.
RefreshOutcomes == {"ok", "fail", "noresp"}

\* What response.json() settles with.
BodyOutcomes == {"ok", "fail"}

\* New refresh tokens a response body may carry (Null: none).
NewRefreshTokens == {Null, "r", "r2"}

\* The catch block: both items are removed and the call resolves to null.
RefreshCatch ==
    /\ token' = removeToken
    /\ refreshTok' = removeRefreshToken
    /\ refreshResult' = ReturnedNull

RefreshFrame ==
    UNCHANGED <<now, navPending, initPc, expiredResult, authVars, userError,
                refreshTried, bookVars, shelfVars>>

\* refreshAuthToken(), up to the first await.
RefreshAuthToken ==
    /\ RefreshFrame
    /\ IF refreshTok = Null
       THEN /\ refreshResult' = ReturnedNull
            /\ lastOp' = "refreshAuthTokenSkipped"
            /\ before' = Found(NoCall)
            /\ UNCHANGED <<token, refreshTok, calls>>
       ELSE /\ Send("refreshAuthToken", NoArg)
            /\ lastOp' = "call"
            /\ before' = Found(Request("refreshAuthToken", NoArg))
            /\ UNCHANGED <<token, refreshTok, refreshResult>>

\* fetch settles: the function goes on to read the body, or to the catch block.
RespondRefreshAuthToken ==
    \E c \in InFlight("refreshAuthToken"), outcome \in RefreshOutcomes :
        /\ RefreshFrame
        /\ before' = Found(c)
        /\ IF outcome = "ok"
           THEN /\ calls' = (calls (-) SetToBag({c}))
                             (+) SetToBag({[c EXCEPT !.op = "refreshAuthTokenBody"]})
                /\ lastOp' = "refreshAuthTokenResponse"
                /\ UNCHANGED <<token, refreshTok, refreshResult>>
           ELSE /\ Done(c)
                /\ RefreshCatch
                /\ lastOp' = IF outcome = "fail" THEN "refreshAuthTokenNotOk"
                                                 ELSE "refreshAuthTokenNoResponse"

\* response.json() settles: the tokens of the body are stored, or the catch block
\* runs.
RespondRefreshAuthTokenBody ==
    \E c \in InFlight("refreshAuthTokenBody"), outcome \in BodyOutcomes,
       newToken \in ServerTokens, newRefreshToken \in NewRefreshTokens :
        /\ RefreshFrame
        /\ before' = Found(c)
        /\ Done(c)
        /\ IF outcome = "ok"
           THEN /\ token' = newToken
                /\ refreshTok' = IF newRefreshToken # Null THEN newRefreshToken
                                                           ELSE refreshTok
                /\ refreshResult' = newToken
                /\ lastOp' = "refreshAuthTokenOk"
           ELSE /\ RefreshCatch
                /\ lastOp' = "refreshAuthTokenUnparsable"

----------------------------------------------------------------------------
(* Environment *)

\* Time passes.
Tick ==
    /\ before' = Found(NoCall)
    /\ now < MaxNow
    /\ now' = now + 1
    /\ lastOp' = "tick"
    /\ UNCHANGED <<tokenVars, navPending, initPc, expiredResult, refreshResult, authVars, userError,
                   calls, refreshTried, bookVars, shelfVars>>

\* The navigation to /login assigned by the 401 handler replaces the page: every
\* provider is constructed anew, requests in flight are dropped, localStorage stays.
Reload ==
    /\ before' = Found(NoCall)
    /\ navPending
    /\ navPending' = FALSE
    /\ initPc' = "start"
    /\ expiredResult' = "none"
    /\ refreshResult' = NoResult
    /\ user' = Null
    /\ profile' = Null
    /\ settings' = Null
    /\ isLoading' = TRUE
    /\ error' = Null
    /\ userError' = Null
    /\ calls' = EmptyBag
    /\ refreshTried' = {}
    /\ lastOp' = "mount"
    /\ books' = <<>>
    /\ book' = Null
    /\ bookIsLoading' = TRUE
    /\ bookError' = Null
    /\ bookCache' = EmptyMap
    /\ searchResults' = <<>>
    /\ shelves' = <<>>
    /\ shelfIsLoading' = TRUE
    /\ shelfError' = Null
    /\ shelfCache' = EmptyMap
    /\ UNCHANGED <<tokenVars, now>>

----------------------------------------------------------------------------

Init ==
    /\ before = [token |-> FALSE, user |-> FALSE, call |-> NoCall]
    /\ token \in BootTokens
    /\ refreshTok \in {Null, "r"}
    /\ now = 1
    /\ navPending = FALSE
    /\ initPc = "start"
    /\ expiredResult = "none"
    /\ refreshResult = NoResult
    /\ user = Null
    /\ profile = Null
    /\ settings = Null
    /\ isLoading = TRUE
    /\ error = Null
    /\ userError = Null
    /\ calls = EmptyBag
    /\ refreshTried = {}
    /\ lastOp = "mount"
    /\ books = <<>>
    /\ book = Null
    /\ bookIsLoading = TRUE
    /\ bookError = Null
    /\ bookCache = EmptyMap
    /\ searchResults = <<>>
    /\ shelves = <<>>
    /\ shelfIsLoading = TRUE
    /\ shelfError = Null
    /\ shelfCache = EmptyMap

Next ==
    \/ InitializeAuth
    \/ RespondRefresh
    \/ Login
    \/ RespondLogin
    \/ Signup
    \/ RespondSignup
    \/ Logout
    \/ FetchUserProfile
    \/ RespondFetchUserProfile
    \/ UpdatePassword
    \/ RespondUpdatePassword
    \/ UserUpdatePassword
    \/ RespondUserUpdatePassword
    \/ Tick
    \/ Reload

Spec == Init /\ [][Next]_vars

\* The book store on its own, under a session that is not signed in.
InitBook == Init /\ token = Absent /\ refreshTok = Null

NextBook ==
    \/ InitializeAuth
    \/ FetchBooks
    \/ RespondFetchBooks
    \/ UpdateBookShelf
    \/ RespondUpdateBookShelf
    \/ AddBook
    \/ RespondAddBook
    \/ SearchBooks
    \/ RespondSearchBooks
    \/ Reload

SpecBook == InitBook /\ [][NextBook]_vars

\* The book store and the shelf store under a session that starts signed in.
InitStores == Init /\ token = JWT("u1", MaxNow) /\ refreshTok = Null

NextStores ==
    \/ InitializeAuth
    \/ FetchBooks
    \/ RespondFetchBooks
    \/ AddBook
    \/ RespondAddBook
    \/ FetchShelves
    \/ RespondFetchShelves
    \/ CreateShelf
    \/ RespondCreateShelf
    \/ Reload

SpecStores == InitStores /\ [][NextStores]_vars

\* The shelf store on its own, under a session that starts signed in.
NextShelf ==
    \/ InitializeAuth
    \/ FetchShelves
    \/ RespondFetchShelves
    \/ CreateShelf
    \/ RespondCreateShelf
    \/ GetShelfById
    \/ RespondGetShelfById
    \/ DeleteShelf
    \/ RespondDeleteShelf
    \/ Reload

SpecShelf == InitStores /\ [][NextShelf]_vars

\* The book store's list and by-id views.
NextBookById ==
    \/ InitializeAuth
    \/ FetchBooks
    \/ RespondFetchBooks
    \/ GetBookById
    \/ RespondGetBookById
    \/ UpdateBook
    \/ RespondUpdateBook
    \/ Reload

SpecBookById == InitBook /\ [][NextBookById]_vars

\* Deletion in the book store, with its list and by-id views.
NextDelete ==
    \/ InitializeAuth
    \/ FetchBooks
    \/ RespondFetchBooks
    \/ GetBookById
    \/ RespondGetBookById
    \/ DeleteBook
    \/ RespondDeleteBook
    \/ Reload

SpecDelete == InitStores /\ [][NextDelete]_vars

\* fetchBooks on its own.
NextFetchAll ==
    \/ InitializeAuth
    \/ FetchBooks
    \/ RespondFetchBooks
    \/ Tick
    \/ Reload

SpecFetchAll == InitStores /\ [][NextFetchAll]_vars

\* The token store on its own.
NextToken ==
    \/ SetToken
    \/ RemoveToken
    \/ SetRefreshToken
    \/ RemoveRefreshToken
    \/ IsTokenExpired
    \/ RefreshAuthToken
    \/ RespondRefreshAuthToken
    \/ RespondRefreshAuthTokenBody
    \/ Tick

SpecToken == Init /\ [][NextToken]_vars

\* The session with the book store and the shelf store.
InitApp == Init /\ token = Absent /\ refreshTok = Null

NextApp ==
    \/ InitializeAuth
    \/ Login
    \/ RespondLogin
    \/ Logout
    \/ FetchBooks
    \/ RespondFetchBooks
    \/ CreateShelf
    \/ RespondCreateShelf
    \/ Reload

SpecApp == InitApp /\ [][NextApp]_vars

----------------------------------------------------------------------------
(* Claims *)

Marks401 == {"refresh401", "login401", "signup401", "fetchUserProfile401",
             "updatePassword401", "userUpdatePassword401",
             "fetchBooks401", "updateBookShelf401", "createShelf401",
             "addBook401", "searchBooks401", "fetchShelves401",
             "getShelfById401Rejected", "getBookById401", "updateBook401",
             "deleteBook401", "deleteShelf401"}

\* C1: optimistic shelf reassignment with rollback.  For a book in the store on
\* shelf S, right after updateBookShelf(bookId, T) is called the store's entry
\* shows shelf T; right after the server call has failed the entry shows S again
\* and the store's error is set.
C1_OptimisticWithRollback ==
    /\ (lastOp = "updateBookShelf" /\ before.call.arg.was # Null)
       => ShelfOf(books, before.call.arg.id) = before.call.arg.shelf
    /\ (lastOp \in {"updateBookShelfFail", "updateBookShelf401"}
          /\ before.call.arg.was # Null)
       => (ShelfOf(books, before.call.arg.id) = before.call.arg.was
           /\ bookError # Null)

\* C2: isTokenExpired is fail-closed.  Whenever initializeAuth has just applied
\* isTokenExpired to the stored credential, and that credential fails to decode
\* or its decoded expiry is in the past, the call returned true (it did not raise).
C2_FailClosed ==
    (lastOp = "initializeAuth" /\ token # Absent
       /\ (~Decodes(token) \/ PastExpiry(token, now)))
    => expiredResult = "true"

\* C3: unauthorized clears the credential.  Right after a 401 response to a
\* request of the auth, book or shelf store has been received, no access token
\* is stored.
C3_UnauthorizedClearsCredential ==
    lastOp \in Marks401 => token = Absent

\* C3 witness: a 401 answered a book store request while a token was stored.
C3_Witness ==
    /\ lastOp = "fetchBooks401"
    /\ before.token
    /\ token = Absent

\* C4: password update forces logout.  Right after updatePassword (of the
\* AuthProvider or of the UserProvider) has completed with a successful server
\* response, user is null and no token is stored.
C4_PasswordUpdateForcesLogout ==
    lastOp \in {"updatePasswordOk", "userUpdatePasswordOk"}
    => (user = Null /\ token = Absent)

\* C4 witness: a successful updatePassword found an authenticated user and a
\* stored token.
C4_Witness ==
    /\ lastOp = "updatePasswordOk"
    /\ before.token /\ before.user
    /\ user = Null /\ token = Absent

\* C5: every request in flight whose bearer was already expired when it was
\* attached is the refresh request itself or was preceded by a refresh attempt
\* for that token.
C5_NoExpiredBearerWithoutRefresh ==
    \A c \in BagToSet(calls) :
        c.expired => (c.op = "refresh" \/ c.refreshed)

\* C6: startup outcome.  With a stored credential that decodes: if it is not
\* expired, initializeAuth leaves the session Authenticated as the credential's
\* subject with no request sent; if it is expired, exactly one refresh request is
\* in flight; when refreshToken succeeds (a new token is obtained and decoded) the
\* session is Authenticated as the new token's subject and that token is stored;
\* when it fails the session is Unauthenticated and no token is stored.  No
\* second refresh follows either outcome.
C6_StartupOutcome ==
    /\ (lastOp = "initializeAuth" /\ Decodes(token) /\ ~PastExpiry(token, now))
       => (user = token.sub /\ initPc = "done" /\ ~isLoading /\ calls = EmptyBag)
    /\ (lastOp = "initializeAuth" /\ PastExpiry(token, now))
       => (initPc = "awaitRefresh" /\ BagCardinality(calls) = 1
           /\ InFlight("refresh") # {} /\ user = Null)
    /\ lastOp = "refreshOk"
       => (Decodes(token) /\ user = token.sub /\ initPc = "done" /\ ~isLoading)
    /\ lastOp \in {"refreshFail", "refresh401"}
       => (user = Null /\ token = Absent /\ initPc = "done" /\ ~isLoading)
    /\ initPc # "awaitRefresh" => InFlight("refresh") = {}

\* C6 witness: the refresh of an expired stored credential has succeeded.
C6_Witness ==
    /\ lastOp = "refreshOk"
    /\ expiredResult = "true"
    /\ before.token /\ ~before.user
    /\ user # Null

\* C7: a decode failure at startup is not fatal.  When the stored credential
\* failed to decode, the initial authentication check is not abandoned, and once
\* it has run isLoading is false, user is null and no token is stored.
C7_DecodeFailureNotFatal ==
    expiredResult = "throw"
    => /\ initPc # "aborted"
       /\ lastOp = "initializeAuth" => (~isLoading /\ user = Null /\ token = Absent)

\* C8: logout clears the whole credential.  Right after logout() from an
\* authenticated state, user, profile
\* and settings are null and neither the access token nor the refresh token is
\* stored.
C8_LogoutClearsCredentialPair ==
    (lastOp = "logout" /\ before.user)
    => /\ user = Null /\ profile = Null /\ settings = Null
       /\ token = Absent
       /\ refreshTok = Null

\* C9: logout clears the resource stores.  Right after logout() has ended an
\* authenticated session the book store's
\* list and cache, the shelf store's list and cache and the user profile are
\* empty.
C9_LogoutClearsStores ==
    (lastOp = "logout" /\ before.user)
    => /\ books = <<>> /\ bookCache = EmptyMap
       /\ shelves = <<>> /\ shelfCache = EmptyMap
       /\ profile = Null

\* Session operations that write the session or the stored credential.
MutatingOps == {"login", "signup", "refresh", "updatePassword", "userUpdatePassword"}

MutatingInFlight ==
    LET S == {c \in BagToSet(calls) : c.op \in MutatingOps}
    IN  BagCardinality([c \in S |-> CopiesIn(c, calls)])

\* C10: single flight.  At most one session operation that mutates the session
\* or the stored credential is in progress, and logout does not take effect
\* while a login awaits its response.
C10_SingleFlight ==
    /\ MutatingInFlight <= 1
    /\ lastOp = "logout" => InFlight("login") = {}

\* C11: no resurrection of a cleared credential.  A login, signup or refresh
\* whose request left with a stored token as its bearer, and which finds no token
\* stored when its response arrives (the credential was cleared by logout or by
\* the 401 handler while it was in flight), stores no access token.
C11_NoResurrection ==
    (lastOp \in {"loginOk", "signupOk", "refreshOk"}
       /\ before.call.expired /\ ~before.token)
    => token = Absent

\* C12: cache coherence on create.  When addBook completes successfully on an
\* empty book store (empty list, empty cache), the list is exactly [b] for the
\* book b the server returned, and the cache maps b's id to b.
C12_CreateCoherence ==
    [][(lastOp' = "addBookOk" /\ books = <<>> /\ bookCache = EmptyMap)
       => /\ Len(books') = 1
          /\ books'[1].shelf = before'.call.arg.shelf
          /\ MapHas(bookCache', books'[1].id)
          /\ bookCache'[books'[1].id] = books'[1]]_vars

\* C13: search does not mutate the primary list.  Every step of searchBooks (the
\* call, and its completion by success or by any failure) leaves the books list
\* and the cache unchanged; it changes only searchResults, isLoading and error.
C13_SearchFrame ==
    [][lastOp' \in {"searchBooks", "searchBooksOk", "searchBooksFail", "searchBooks401"}
       => (books' = books /\ bookCache' = bookCache /\ book' = book)]_vars

\* C13 witness: a search has returned results while the list populated by an
\* earlier fetchBooks is in place.
C13_Witness ==
    /\ lastOp = "searchBooksOk"
    /\ MapHas(bookCache, "allBooks") /\ books # <<>>
    /\ searchResults # <<>> /\ searchResults # books

\* C14: idempotent clear.  removeToken() can be called in every token-store
\* state, and after a first call and after a second call in a row no access
\* token is stored.
C14_IdempotentClear ==
    /\ ENABLED RemoveToken
    /\ lastOp \in {"removeToken", "removeTokenAgain"} => token = Absent

\* C14 witness: removeToken() has been called twice in a row; the second call
\* found the store already empty.
C14_Witness ==
    /\ lastOp = "removeTokenAgain"
    /\ ~before.token
    /\ token = Absent

\* Marks of a book-store and of a shelf-store operation whose API call failed.
BookFailMarks ==
    {op \o m : op \in {"fetchBooks", "updateBookShelf", "addBook"},
               m \in {"Fail", "401"}}
ShelfFailMarks ==
    {op \o m : op \in {"fetchShelves", "createShelf", "getShelfById"},
               m \in {"Fail", "401", "FailRejected", "401Rejected"}}

\* C15: store operations never throw past the store boundary.  Right after the
\* API call of a book-store or shelf-store operation has failed, the store's
\* error is set and the promise returned to the caller has not rejected.
C15_NoThrowPastStore ==
    /\ lastOp \in BookFailMarks => bookError # Null
    /\ lastOp \in ShelfFailMarks => shelfError # Null
    /\ lastOp \notin {"getShelfByIdFailRejected", "getShelfById401Rejected", "getBookById401", "updateBook401",
             "deleteBook401", "deleteShelf401"}

\* C16: failed login returns to Unauthenticated.  When a login whose response
\* finds no user and no stored token is rejected, then afterwards user is still
\* null, no token is stored, error holds the failure message, isLoading is
\* false, and the only change to the requests in flight is that the login
\* request is gone: no retry was issued.
C16_FailedLogin ==
    [][(lastOp' \in {"loginFail", "login401"} /\ user = Null /\ token = Absent)
       => /\ user' = Null
          /\ token' = Absent
          /\ error' \in {ErrResponse, ErrNoResponse}
          /\ ~isLoading'
          /\ calls' = calls (-) SetToBag({before'.call})]_vars

\* C16 witness: a login from the Unauthenticated state has been rejected.
C16_Witness ==
    /\ lastOp = "loginFail"
    /\ before.call.op = "login"
    /\ ~before.user /\ ~before.token
    /\ user = Null /\ token = Absent /\ error = ErrResponse /\ ~isLoading

\* C17: fetchAll short-circuits on a cached view.  No fetchBooks request is sent
\* from a state whose cache holds 'allBooks', and no fetchShelves request from a
\* state whose cache holds the user's shelves key; a fetch served from the cache
\* sends nothing, leaves the list equal to the cached value and isLoading false.
C17_FetchShortCircuit ==
    [][/\ (lastOp' = "call" /\ before'.call.op = "fetchBooks")
          => "allBooks" \notin DOMAIN bookCache
       /\ (lastOp' = "call" /\ before'.call.op = "fetchShelves")
          => ShelfKey(before'.call.arg.id) \notin DOMAIN shelfCache
       /\ lastOp' = "fetchBooksCached"
          => (calls' = calls /\ books' = bookCache["allBooks"] /\ ~bookIsLoading')
       /\ lastOp' = "fetchShelvesCached"
          => (calls' = calls /\ shelves' = shelfCache[ShelfKey(user)]
              /\ ~shelfIsLoading')]_vars

\* C17 witness: fetchShelves has been served from the cache while the book
\* cache holds 'allBooks' too.
C17_Witness ==
    /\ lastOp = "fetchShelvesCached"
    /\ user # Null /\ ShelfKey(user) \in DOMAIN shelfCache
    /\ shelves = shelfCache[ShelfKey(user)] /\ shelves # <<>>
    /\ "allBooks" \in DOMAIN bookCache

\* C18: fetchOne serves from the by-id cache.  getBookById(id) sends a request
\* only from a state whose cache has no entry for id, and then exactly one; a
\* call served from the cache sends nothing and exposes the cached entry; a
\* successful response stores the book in the cache under id; and an entry once
\* cached stays cached while the page lives, so a second getBookById(id) sends
\* no request.
C18_FetchOneCached ==
    [][/\ (lastOp' = "call" /\ before'.call.op = "getBookById")
          => /\ before'.call.arg.id \notin DOMAIN bookCache
             /\ calls' = calls (+) SetToBag({before'.call})
       /\ lastOp' = "getBookByIdCached"
          => (calls' = calls /\ book' = bookCache[before'.call.arg.id])
       /\ lastOp' = "getBookByIdOk"
          => /\ before'.call.arg.id \in DOMAIN bookCache'
             /\ bookCache'[before'.call.arg.id] = book'
       /\ lastOp' # "mount" => DOMAIN bookCache \subseteq DOMAIN bookCache']_vars

\* C18 witness: a second getBookById(id) has been served from the entry a first
\* one stored.
C18_Witness ==
    /\ lastOp = "getBookByIdCached"
    /\ before.call.arg.id \in DOMAIN bookCache
    /\ book = bookCache[before.call.arg.id]
    /\ calls = EmptyBag

\* C20: update keeps every cached copy current.  Right after updateBook(id, data)
\* has succeeded with server value b, the list's entry for id (if the list has
\* one) is b, and the by-id cache entry for id (if the cache has one) is b, so
\* that getBookById(id) would expose b.
C20_UpdateKeepsCacheCurrent ==
    lastOp = "updateBookOk"
    => LET b == Book(before.call.arg.id, before.call.arg.shelf) IN
       /\ \A k \in DOMAIN books : books[k].id = b.id => books[k] = b
       /\ b.id \in DOMAIN bookCache => bookCache[b.id] = b

\* C19: create is not optimistic and its failure is a no-op on data.  The call of
\* addBook or createShelf leaves the lists and the caches as they are, so the new
\* item is not shown before the server responds; when the server call fails the
\* lists and the caches are unchanged and the store's error is set.
C19_CreateNotOptimistic ==
    [][/\ (lastOp' = "call" /\ before'.call.op \in {"addBook", "createShelf"})
          => UNCHANGED <<books, bookCache, shelves, shelfCache>>
       /\ lastOp' \in {"addBookFail", "addBook401"}
          => (UNCHANGED <<books, bookCache, shelves, shelfCache>>
              /\ bookError' # Null)
       /\ lastOp' \in {"createShelfFail", "createShelf401"}
          => (UNCHANGED <<books, bookCache, shelves, shelfCache>>
              /\ shelfError' # Null)]_vars

\* C19 witness: the server has rejected a createShelf while the shelf store and
\* the book store hold items.
C19_Witness ==
    /\ lastOp = "createShelfFail"
    /\ shelfError # Null
    /\ shelves # <<>> /\ books # <<>>

\* C21: remove deletes exactly the target.  When deleteBook(id) succeeds, the
\* list is the old list without the entries for id, in the same order, the
\* cached all-books view equals it and the cache has no by-id entry for id; when
\* deleteShelf(id) succeeds, the shelves list and the user's cached view are the
\* old list without id; when either server call fails, lists and caches are
\* unchanged.
C21_RemoveExactlyTarget ==
    [][/\ lastOp' = "deleteBookOk"
          => /\ books' = SelectSeq(books, LAMBDA b : b.id # before'.call.arg.id)
             /\ bookCache'["allBooks"] = books'
             /\ before'.call.arg.id \notin DOMAIN bookCache'
       /\ lastOp' = "deleteShelfOk"
          => /\ shelves' = SelectSeq(shelves,
                                     LAMBDA sh : sh.id # before'.call.arg.shelf)
             /\ shelfCache'[ShelfKey(before'.call.arg.id)] = shelves'
       /\ lastOp' \in {"deleteBookFail", "deleteBook401",
                        "deleteShelfFail", "deleteShelf401"}
          => UNCHANGED <<books, bookCache, shelves, shelfCache>>]_vars

\* C22: loading protocol of session operations.  Invoking login, signup,
\* fetchUserProfile or updatePassword leaves isLoading true, and isLoading is
\* false once the operation has completed, by success or by failure.
C22_LoadingProtocol ==
    [][/\ (lastOp' = "call"
            /\ before'.call.op \in {"login", "signup", "fetchUserProfile",
                                     "updatePassword"})
          => isLoading'
       /\ lastOp' \in {Mark(op, o) : op \in {"login", "signup", "fetchUserProfile",
                                             "updatePassword"},
                                     o \in Outcomes}
          => ~isLoading']_vars

\* Requests of the book store and of the shelf store.
StoreRequestOps ==
    {"fetchBooks", "getBookById", "updateBookShelf", "addBook", "updateBook",
     "deleteBook", "searchBooks", "fetchShelves", "getShelfById", "createShelf",
     "deleteShelf"}

\* C23: fetches are gated on an authenticated subject.  Whenever the book store
\* or the shelf store sends a request, the session holds an authenticated user;
\* with user null, a store fetch or mutation sends nothing.
C23_GatedOnUser ==
    [][(BagCardinality(calls') > BagCardinality(calls)
          /\ before'.call.op \in StoreRequestOps)
       => user # Null]_vars

\* C24: overlapping fetchAll is last-response-wins.  A fetchBooks call that finds
\* no 'allBooks' view cached sends a request, also when another fetchBooks
\* request is already in flight; and every successful response, whatever the
\* order the requests were issued in and whatever an earlier response left,
\* makes the books list and the cached 'allBooks' view equal to the collection
\* it carried, so after both have completed they equal the last response.
C24_LastResponseWins ==
    [][/\ (lastOp' = "call" /\ before'.call.op = "fetchBooks")
          => calls' = calls (+) SetToBag({before'.call})
       /\ lastOp' = "fetchBooksOk"
          => /\ books' = before'.call.got
             /\ bookCache'["allBooks"] = before'.call.got]_vars

\* C24 witness: both of two overlapping fetchBooks calls have completed, and the
\* second response replaced a different, non-empty list left by the first.
C24_Witness ==
    /\ lastOp = "fetchBooksOk"
    /\ calls = EmptyBag
    /\ before.call.over # <<>>
    /\ before.call.over # before.call.got
    /\ books = before.call.got
    /\ bookCache["allBooks"] = before.call.got

\* C25: session and credential agree at rest.  In every state where the startup
\* check has finished, no request is in flight and no navigation to /login is
\* pending, user is non-null exactly when an access token is stored.
C25_SessionAgreesWithCredential ==
    (initPc = "done" /\ calls = EmptyBag /\ ~navPending)
    => (user # Null <=> token # Absent)

\* C26: the cached 'allBooks' view is only ever derived from a full collection
\* fetch.  The cache gets an 'allBooks' entry only by a successful response to
\* GET /books; no other operation creates it.
C26_AllBooksOnlyFromFetch ==
    [][("allBooks" \notin DOMAIN bookCache /\ "allBooks" \in DOMAIN bookCache')
       => lastOp' = "fetchBooksOk"]_vars

\* Book-store requests that set isLoading when they are issued.
LoadingTrackedOps ==
    {"getBookById", "getBooksByShelf", "addBook", "updateBook", "deleteBook",
     "searchBooks"}

\* C27: isLoading marks in-flight state under overlap.  In the book store
\* isLoading is true in every state where a loading-tracked request is awaiting
\* its response.
C27_LoadingMarksInFlight ==
    (\E c \in BagToSet(calls) : c.op \in LoadingTrackedOps) => bookIsLoading

\* C28: no cross-user leak of shelves.  While a user is the authenticated
\* subject, every shelf in the shelves list, and every shelf in the cache entry
\* under that user's key, was fetched or created for that user.
C28_NoCrossUserShelves ==
    user # Null
    => /\ \A k \in DOMAIN shelves : shelves[k].owner = user
       /\ ShelfKey(user) \in DOMAIN shelfCache
          => \A k \in DOMAIN shelfCache[ShelfKey(user)] :
                 shelfCache[ShelfKey(user)][k].owner = user

\* C29: the book store's error is sticky.  Once error is set, every later
\* book-store operation, successful ones included, leaves it non-null for as long
\* as the page lives.
C29_ErrorSticky ==
    [][(bookError # Null /\ lastOp' # "mount") => bookError' # Null]_vars

\* C29 witness: a book-store operation has succeeded after an earlier one failed,
\* and error is still set.
C29_Witness ==
    /\ lastOp \in {"fetchBooksOk", "addBookOk", "searchBooksOk", "updateBookShelfOk"}
    /\ bookError # Null

\* C30: a failed token refresh leaves no credential behind.  When the refresh
\* request fails (a non-OK response, no response, an unparsable body) the access
\* token and the refresh token are both absent afterwards and the call resolves
\* to null; a request is issued only when a refresh token is stored, and without
\* one the call resolves to null with no request and the access token untouched.
C30_FailedRefreshClearsBoth ==
    [][ /\ lastOp' \in {"refreshAuthTokenNotOk", "refreshAuthTokenNoResponse",
                        "refreshAuthTokenUnparsable"}
           => /\ token' = Absent
              /\ refreshTok' = Null
              /\ refreshResult' = ReturnedNull
        /\ lastOp' = "refreshAuthTokenSkipped"
           => /\ refreshTok = Null
              /\ calls' = calls
              /\ token' = token
              /\ refreshResult' = ReturnedNull
        /\ (lastOp' = "call" /\ before'.call.op = "refreshAuthToken")
           => refreshTok # Null ]_vars

\* C30 witness: a refresh request issued with a stored refresh token has failed
\* while an access token was stored; both items are gone and the result is null.
C30_Witness ==
    /\ lastOp \in {"refreshAuthTokenNotOk", "refreshAuthTokenNoResponse",
                   "refreshAuthTokenUnparsable"}
    /\ before.token
    /\ token = Absent
    /\ refreshTok = Null
    /\ refreshResult = ReturnedNull

====
